---- MODULE Spec2Model ----
(***************************************************************************)
(* Model of the window manager core of Synapse                             *)
(* (src/core/window_manager.py): the orchestrator WindowManager with its   *)
(* LayoutCalculator, AnimationEngine, HistoryManager, LayoutStore and      *)
(* MonitorManager, running against a small model of the Win32 desktop      *)
(* (windows that another process may close at any time).                   *)
(***************************************************************************)
EXTENDS Integers, Sequences, FiniteSets, TLC

VARIABLES
    win,                \* the desktop: hwnd -> the window's OS state
    _monitors,          \* MonitorManager._monitors (the cached, sorted list)
    animation_enabled,  \* Config.animation_enabled
    _history,           \* HistoryManager._history: hwnd -> deque of WindowState
    _layouts,           \* LayoutStore._layouts: name -> (truncated title -> Rect)
    clock,              \* time.time(), as a logical clock for the timestamps
    pc,                 \* position of the orchestrator call in flight ("idle": none)
    call,               \* the call in flight, or the last one: locals and its result
    ncalls,             \* number of orchestrator calls started
    evicted,            \* hwnd -> the WindowStates the bounded deque has dropped
    scen,               \* hwnd -> progress of the tile/tile/undo scenario on it
    config,             \* Config.gap and Config.margin
    displays,           \* the displays EnumDisplayMonitors reports, in its order
    layout_file,        \* the document in layouts.json (None: no such file)
    config_file,        \* wm_config.json: its content and who may read or write it
    probe               \* the last direct call of a component, with its result

vars == <<win, _monitors, animation_enabled, _history, _layouts, clock, pc,
          call, ncalls, evicted, scen, config, displays, layout_file, config_file, probe>>

-----------------------------------------------------------------------------
(* Bounds of the model                                                     *)

\* Config.history_size of the configuration under check (the default is 50).
history_size == 2

\* Orchestrator calls per behaviour.
MaxCalls == 3

\* The window handles of the desktop; 0 is NULL.
Hwnds == {1, 2}

-----------------------------------------------------------------------------
(* Program constants                                                       *)

gap == 10
margin == 15
animation_steps == 10
TITLE_KEY_LEN == 50
CASCADE_OFFSET == 30

excluded_classes ==
    {"Shell_TrayWnd", "Progman", "WorkerW", "Windows.UI.Core.CoreWindow",
     "ApplicationFrameWindow"}

excluded_titles ==
    { <<"P", "r", "o", "g", "r", "a", "m", " ", "M", "a", "n", "a", "g", "e", "r">>,
      <<"W", "i", "n", "d", "o", "w", "s", " ", "I", "n", "p", "u", "t", " ",
        "E", "x", "p", "e", "r", "i", "e", "n", "c", "e">> }

TileModes ==
    {"LEFT_HALF", "RIGHT_HALF", "TOP_HALF", "BOTTOM_HALF", "LEFT_THIRD",
     "CENTER_THIRD", "RIGHT_THIRD", "LEFT_TWO_THIRDS", "RIGHT_TWO_THIRDS",
     "MAXIMIZE", "CENTER", "CENTER_SMALL"}

-----------------------------------------------------------------------------
(* Geometry primitives                                                     *)

Rect(x, y, w, h) == [x |-> x, y |-> y, width |-> w, height |-> h]

from_ltrb(l, t, r, b) == Rect(l, t, r - l, b - t)

\* Python's int() on a quotient: truncation toward zero.
TruncDiv(a, b) == IF a >= 0 THEN a \div b ELSE -((-a) \div b)

\* Python's // : floor division (b > 0).
FloorDiv(a, b) == a \div b

None == [none |-> TRUE]

Last(s) == s[Len(s)]

-----------------------------------------------------------------------------
(* Layout Calculator                                                       *)

calculate_halves_no_gap(mode, work_area) ==
    LET uw == work_area.width - (config.margin * 2)
        uh == work_area.height - (config.margin * 2)
    IN  CASE mode = "LEFT_HALF" ->
               Rect(work_area.x + config.margin, work_area.y + config.margin,
                    FloorDiv(uw, 2), uh)
          [] mode = "RIGHT_HALF" ->
               Rect(work_area.x + config.margin + FloorDiv(uw, 2),
                    work_area.y + config.margin, FloorDiv(uw, 2), uh)
          [] OTHER -> work_area

calculate_right_after_half(mode, work_area) ==
    LET uw == work_area.width - (config.margin * 2)
        uh == work_area.height - (config.margin * 2)
    IN  CASE mode = "LEFT_HALF" ->
               Rect(work_area.x + config.margin, work_area.y + config.margin,
                    FloorDiv(uw - config.gap, 2), uh)
          [] mode = "RIGHT_HALF" ->
               Rect(work_area.x + config.margin + FloorDiv(uw, 2) + config.gap,
                    work_area.y + config.margin, FloorDiv(uw - config.gap, 2), uh)
          [] OTHER -> work_area

\* LayoutCalculator.calculate: the layouts table, entry by entry.  The
\* float products int(w * 0.15) ... are taken as exact hundredths.
calculate(mode, work_area) ==
    LET w  == work_area.width
        h  == work_area.height
        x  == work_area.x
        y  == work_area.y
        uw == w - (config.margin * 2)
        uh == h - (config.margin * 2)
        third == FloorDiv(uw - config.gap * 2, 3)
        twoth == FloorDiv(2 * (uw - config.gap * 2), 3) + config.gap
    IN  CASE mode = "LEFT_HALF" ->
               Rect(x + config.margin, y + config.margin, FloorDiv(uw - config.gap, 2), uh)
          [] mode = "RIGHT_HALF" ->
               Rect(x + config.margin + FloorDiv(uw + config.gap, 2), y + config.margin,
                    FloorDiv(uw - config.gap, 2), uh)
          [] mode = "TOP_HALF" ->
               Rect(x + config.margin, y + config.margin, uw, FloorDiv(uh - config.gap, 2))
          [] mode = "BOTTOM_HALF" ->
               Rect(x + config.margin, y + config.margin + FloorDiv(uh + config.gap, 2), uw,
                    FloorDiv(uh - config.gap, 2))
          [] mode = "LEFT_THIRD" ->
               Rect(x + config.margin, y + config.margin, third, uh)
          [] mode = "CENTER_THIRD" ->
               Rect(x + config.margin + third + config.gap, y + config.margin, third, uh)
          [] mode = "RIGHT_THIRD" ->
               Rect(x + config.margin + 2 * (third + config.gap), y + config.margin, third, uh)
          [] mode = "LEFT_TWO_THIRDS" ->
               Rect(x + config.margin, y + config.margin, twoth, uh)
          [] mode = "RIGHT_TWO_THIRDS" ->
               Rect(x + config.margin + third + config.gap, y + config.margin, twoth, uh)
          [] mode = "MAXIMIZE" ->
               Rect(x + config.margin, y + config.margin, uw, uh)
          [] mode = "CENTER" ->
               Rect(x + TruncDiv(w * 15, 100), y + TruncDiv(h * 10, 100),
                    TruncDiv(w * 70, 100), TruncDiv(h * 80, 100))
          [] mode = "CENTER_SMALL" ->
               Rect(x + TruncDiv(w * 25, 100), y + TruncDiv(h * 20, 100),
                    TruncDiv(w * 50, 100), TruncDiv(h * 60, 100))

calculate_grid_gaps_not_deducted(row, col, rows, cols, work_area) ==
    LET cell_w == FloorDiv(work_area.width - (config.margin * 2), cols)
        cell_h == FloorDiv(work_area.height - (config.margin * 2), rows)
    IN  Rect(work_area.x + config.margin + col * (cell_w + config.gap),
             work_area.y + config.margin + row * (cell_h + config.gap),
             cell_w, cell_h)

\* LayoutCalculator.calculate_grid
calculate_grid(row, col, rows, cols, work_area) ==
    LET uw     == work_area.width - (config.margin * 2) - (config.gap * (cols - 1))
        uh     == work_area.height - (config.margin * 2) - (config.gap * (rows - 1))
        cell_w == FloorDiv(uw, cols)
        cell_h == FloorDiv(uh, rows)
    IN  Rect(work_area.x + config.margin + col * (cell_w + config.gap),
             work_area.y + config.margin + row * (cell_h + config.gap),
             cell_w, cell_h)

-----------------------------------------------------------------------------
(* The desktop: displays and windows as the OS reports them                *)

MonitorInfo(handle, work_area, full_area, is_primary) ==
    [handle |-> handle, work_area |-> work_area, full_area |-> full_area,
     is_primary |-> is_primary]

\* The displays EnumDisplayMonitors reports, in the order it reports them:
\* a secondary display to the right of the primary one, a taskbar on each.
OsMonitors ==
    << MonitorInfo(2, from_ltrb(1920, 0, 3200, 984), from_ltrb(1920, 0, 3200, 1024), FALSE),
       MonitorInfo(1, from_ltrb(0, 0, 1920, 1040), from_ltrb(0, 0, 1920, 1080), TRUE) >>

\* A third display some desktops have, to the left of the primary one.
ThirdDisplay ==
    MonitorInfo(3, from_ltrb(-1280, 0, 0, 984), from_ltrb(-1280, 0, 0, 1024), FALSE)

\* win32api.MonitorFromWindow(hwnd, MONITOR_DEFAULTTONEAREST) for a live
\* window: the display holding the window's centre, the nearest one otherwise.
MonitorFromWindow(w) ==
    LET cx == w.rect.x + (w.rect.width \div 2)
    IN  IF cx >= 1920 THEN 2
        ELSE IF cx < 0 /\ \E i \in 1..Len(displays) : displays[i].handle = 3 THEN 3
        ELSE 1

\* A closed window: IsWindow is false and nothing else can be read.
Dead == [exists |-> FALSE]

\* What a window is never changes while it lives: win[h].kind names it, and
\* the calls below answer from the kind.  "app" is an ordinary application
\* window with a 7 pixel invisible resize border and a title longer than a
\* layout key, "plain" one without border and with a short title; the
\* others differ from "app" in the one attribute their name says.
Digit(h) == IF h = 1 THEN "1" ELSE "2"

LongTitle(h) == [i \in 1..TITLE_KEY_LEN |-> "x"] \o <<Digit(h)>>

ShortTitle ==
    <<"U", "n", "t", "i", "t", "l", "e", "d", " ", "-", " ", "N", "o", "t", "e",
      "p", "a", "d">>

\* GetWindowText
GetWindowText(w, h) ==
    CASE w[h].kind = "plain" -> ShortTitle
      [] w[h].kind = "tray" -> <<>>
      [] w[h].kind = "titled" ->
           <<"P", "r", "o", "g", "r", "a", "m", " ", "M", "a", "n", "a", "g", "e", "r">>
      [] OTHER -> LongTitle(h)

\* GetClassName
GetClassName(w, h) == IF w[h].kind = "tray" THEN "Shell_TrayWnd" ELSE "Notepad"

\* GetWindowLong(GWL_EXSTYLE) & WS_EX_TOOLWINDOW
IsToolWindow(w, h) == w[h].kind = "tool"

\* GetWindowLong(GWL_STYLE) & WS_CHILD
IsChildWindow(w, h) == w[h].kind = "child"

\* Width of the invisible resize border
Border(w, h) == IF w[h].kind = "plain" THEN 0 ELSE 7

\* The calls below read or change a desktop w (the variable win, or the
\* desktop an earlier call of the same handler has left).
IsWindow(w, h) == h \in Hwnds /\ w[h].exists

IsWindowVisible(w, h) == IsWindow(w, h) /\ w[h].visible

GetWindowRect(w, h) ==
    LET r == w[h].rect
    IN  <<r.x, r.y, r.x + r.width, r.y + r.height>>

\* DWMWA_EXTENDED_FRAME_BOUNDS: the visible frame, which lies inside the
\* window rectangle by the invisible resize border on the left, right and
\* bottom edge.
DwmExtendedFrameBounds(w, h) ==
    LET r == GetWindowRect(w, h)
        b == Border(w, h)
    IN  [left |-> r[1] + b, top |-> r[2], right |-> r[3] - b, bottom |-> r[4] - b]

\* win32gui.MoveWindow on a live window.
MoveWindow(w, h, x, y, width, height) ==
    [w EXCEPT ![h].rect = Rect(x, y, width, height),
              ![h].normal = IF w[h].showCmd = "normal"
                            THEN Rect(x, y, width, height) ELSE @]

\* win32gui.ShowWindow(hwnd, SW_RESTORE) on a live window.
ShowWindowRestore(w, h) ==
    [w EXCEPT ![h].showCmd = "normal", ![h].rect = w[h].normal]

\* EnumWindows: the live top-level windows, in ascending handle order.
RECURSIVE EnumFrom(_, _)
EnumFrom(w, h) ==
    IF h \notin Hwnds THEN <<>>
    ELSE (IF w[h].exists /\ ~IsChildWindow(w, h) THEN <<h>> ELSE <<>>)
         \o EnumFrom(w, h + 1)

EnumWindows(w) == EnumFrom(w, 1)

-----------------------------------------------------------------------------
(* Window utilities                                                        *)

\* WindowUtils.get_extended_frame_offsets: (left, top, right, bottom), all
\* zero when the window rectangle cannot be read.
get_extended_frame_offsets(w, h) ==
    IF ~IsWindow(w, h) THEN <<0, 0, 0, 0>>
    ELSE LET rect == DwmExtendedFrameBounds(w, h)
             ltrb == GetWindowRect(w, h)
         IN  <<rect.left - ltrb[1], 0, ltrb[3] - rect.right, ltrb[4] - rect.bottom>>

\* WindowUtils.get_window_info
get_window_info(w, h) ==
    IF ~IsWindow(w, h) THEN None
    ELSE LET ltrb == GetWindowRect(w, h)
         IN  [hwnd |-> h,
              title |-> GetWindowText(w, h),
              class_name |-> GetClassName(w, h),
              rect |-> from_ltrb(ltrb[1], ltrb[2], ltrb[3], ltrb[4]),
              is_visible |-> w[h].visible,
              is_minimized |-> w[h].showCmd = "minimized",
              is_maximized |-> w[h].showCmd = "maximized"]

\* WindowUtils.enumerate_windows with no filter_func: the visible windows,
\* as WindowInfo snapshots in enumeration order.  A caller that passes a
\* filter_func selects from this sequence with it.
enumerate_windows(w) ==
    LET hs    == EnumWindows(w)
        infos == [i \in 1..Len(hs) |-> get_window_info(w, hs[i])]
        Keep(info) == info.is_visible
    IN  SelectSeq(infos, Keep)

-----------------------------------------------------------------------------
(* Monitor Manager                                                         *)

\* list.sort(key=lambda m: m.work_area.x): a stable insertion sort.
RECURSIVE InsertByX(_, _)
InsertByX(m, s) ==
    IF s = <<>> THEN <<m>>
    ELSE IF m.work_area.x < Head(s).work_area.x THEN <<m>> \o s
    ELSE <<Head(s)>> \o InsertByX(m, Tail(s))

RECURSIVE SortByX(_)
SortByX(s) ==
    IF s = <<>> THEN <<>>
    ELSE InsertByX(Last(s), SortByX(SubSeq(s, 1, Len(s) - 1)))

\* MonitorManager._refresh from an empty list: enumOk is whether
\* EnumDisplayMonitors succeeds, infoOk the display handles for which
\* GetMonitorInfo succeeds.
_refresh(enumOk, infoOk) ==
    IF ~enumOk THEN <<>>
    ELSE LET Ok(m) == m.handle \in infoOk
         IN  SortByX(SelectSeq(displays, Ok))

primary_ignores_flag(mons) == IF mons # <<>> THEN mons[1] ELSE None

\* MonitorManager.primary
primary(mons) ==
    LET flagged == SelectSeq(mons, LAMBDA m : m.is_primary)
    IN  IF flagged # <<>> THEN flagged[1]
        ELSE IF mons # <<>> THEN mons[1] ELSE None

\* MonitorManager.get_monitor_for_window: MonitorFromWindow raises for a
\* closed window, and the handler answers the primary monitor.
get_monitor_for_window(mons, w, h) ==
    IF ~IsWindow(w, h) THEN primary(mons)
    ELSE LET hMonitor == MonitorFromWindow(w[h])
             found    == SelectSeq(mons, LAMBDA m : m.handle = hMonitor)
         IN  IF found # <<>> THEN found[1] ELSE primary(mons)

\* list.index: the position of the first element equal to current, 0 if none.
IndexOf(mons, current) ==
    IF \E i \in 1..Len(mons) : mons[i] = current
    THEN CHOOSE i \in 1..Len(mons) :
             mons[i] = current /\ \A j \in 1..(i - 1) : mons[j] # current
    ELSE 0

get_next_monitor_no_wrap(mons, current) ==
    IF mons = <<>> THEN current
    ELSE LET idx == IndexOf(mons, current)
         IN  IF idx = 0 THEN mons[1]
             ELSE IF idx < Len(mons) THEN mons[idx + 1] ELSE mons[idx]

\* MonitorManager.get_next_monitor (sequences count from 1)
get_next_monitor(mons, current) ==
    IF mons = <<>> THEN current
    ELSE LET idx == IndexOf(mons, current)
         IN  IF idx # 0 THEN mons[(idx % Len(mons)) + 1] ELSE mons[1]

\* MonitorManager.get_prev_monitor
get_prev_monitor(mons, current) ==
    IF mons = <<>> THEN current
    ELSE LET idx == IndexOf(mons, current)
         IN  IF idx # 0 THEN mons[((idx - 2) % Len(mons)) + 1] ELSE mons[1]

-----------------------------------------------------------------------------
(* Animation Engine                                                        *)

\* The rectangle AnimationEngine._apply_position hands to MoveWindow.
_apply_position(rect, offsets) ==
    Rect(rect.x - offsets[1], rect.y - offsets[2],
         rect.width + offsets[1] + offsets[3], rect.height + offsets[4])

\* int(a + (b - a) * t) for t = _ease_out_cubic(i / steps) = 1 - (1 - i/steps)^3,
\* in exact arithmetic.
Interpolate(a, b, i, steps) ==
    LET cube == steps * steps * steps
        rem  == (steps - i) * (steps - i) * (steps - i)
    IN  TruncDiv(a * cube + (b - a) * (cube - rem), cube)

animate_always_stepped(enabled, start, end) ==
    [i \in 1..animation_steps |->
        Rect(Interpolate(start.x, end.x, i, animation_steps),
             Interpolate(start.y, end.y, i, animation_steps),
             Interpolate(start.width, end.width, i, animation_steps),
             Interpolate(start.height, end.height, i, animation_steps))]

animate_short(enabled, start, end) ==
    IF ~enabled THEN <<end>>
    ELSE [i \in 1..(animation_steps - 1) |->
            Rect(Interpolate(start.x, end.x, i, animation_steps),
                 Interpolate(start.y, end.y, i, animation_steps),
                 Interpolate(start.width, end.width, i, animation_steps),
                 Interpolate(start.height, end.height, i, animation_steps))]

\* AnimationEngine.animate: the rectangles it applies, in order.
animate(enabled, start, end) ==
    IF ~enabled THEN <<end>>
    ELSE [i \in 1..animation_steps |->
            Rect(Interpolate(start.x, end.x, i, animation_steps),
                 Interpolate(start.y, end.y, i, animation_steps),
                 Interpolate(start.width, end.width, i, animation_steps),
                 Interpolate(start.height, end.height, i, animation_steps))]

-----------------------------------------------------------------------------
(* History Manager                                                         *)

WindowState(hwnd, rect, timestamp) ==
    [hwnd |-> hwnd, rect |-> rect, timestamp |-> timestamp]

DequeAppend_unbounded(q, x) == Append(q, x)

\* deque(maxlen=max_size).append
DequeAppend(q, x) ==
    IF history_size = 0 THEN <<>>
    ELSE IF Len(q) >= history_size THEN Append(Tail(q), x)
    ELSE Append(q, x)

save_state_first_only(hist, w, h, now) ==
    LET info == get_window_info(w, h)
    IN  IF info = None \/ hist[h] # <<>> THEN hist
        ELSE [hist EXCEPT ![h] = <<WindowState(h, info.rect, now)>>]

\* HistoryManager.save_state: the history after the call.
save_state(hist, w, h, now) ==
    LET info == get_window_info(w, h)
    IN  IF info = None THEN hist
        ELSE [hist EXCEPT ![h] = DequeAppend(@, WindowState(h, info.rect, now))]

get_previous_state_popped(hist, h) ==
    IF Len(hist[h]) < 2 THEN [ret |-> None, hist |-> hist]
    ELSE [ret |-> Last(hist[h]),
          hist |-> [hist EXCEPT ![h] = SubSeq(hist[h], 1, Len(hist[h]) - 1)]]

\* HistoryManager.get_previous_state: the value returned and the history
\* after the call.
get_previous_state(hist, h) ==
    IF Len(hist[h]) < 2 THEN [ret |-> None, hist |-> hist]
    ELSE LET popped == SubSeq(hist[h], 1, Len(hist[h]) - 1)
         IN  [ret |-> Last(popped), hist |-> [hist EXCEPT ![h] = popped]]

-----------------------------------------------------------------------------
(* Layout Store                                                            *)

LayoutNames == {"A", "B"}

\* title[:50]
TitleKey(title) ==
    IF Len(title) <= TITLE_KEY_LEN THEN title ELSE SubSeq(title, 1, TITLE_KEY_LEN)

\* {w.title[:50]: w.rect for w in windows}: a later window replaces an
\* earlier one with the same key.
RECURSIVE TitleDict(_)
TitleDict(windows) ==
    IF windows = <<>> THEN << >>
    ELSE LET rest == TitleDict(SubSeq(windows, 1, Len(windows) - 1))
             lastw == Last(windows)
             key  == TitleKey(lastw.title)
         IN  [k \in (DOMAIN rest) \cup {key} |->
                 IF k = key THEN lastw.rect ELSE rest[k]]

\* LayoutStore.save_current: the layouts after the call.
save_current(layouts, w, name) ==
    LET filter_func(i) == ~i.is_minimized /\ i.title # <<>>
        windows == SelectSeq(enumerate_windows(w), filter_func)
        layout  == TitleDict(windows)
    IN  [n \in (DOMAIN layouts) \cup {name} |->
            IF n = name THEN layout ELSE layouts[n]]

restore_moves_full_title(layouts, w, name) ==
    LET layout  == layouts[name]
        current == enumerate_windows(w)
        matched == SelectSeq(current, LAMBDA i : i.title \in DOMAIN layout)
    IN  [k \in 1..Len(matched) |->
            LET rect    == layout[matched[k].title]
                offsets == get_extended_frame_offsets(w, matched[k].hwnd)
            IN  [hwnd |-> matched[k].hwnd,
                 rect |-> Rect(rect.x - offsets[1], rect.y,
                               rect.width + offsets[1] + offsets[3],
                               rect.height + offsets[4])]]

\* LayoutStore.restore for a known layout: the MoveWindow calls it makes, as
\* a sequence of [hwnd, rect].
restore_moves(layouts, w, name) ==
    LET layout  == layouts[name]
        current == enumerate_windows(w)
        matched == SelectSeq(current, LAMBDA i : TitleKey(i.title) \in DOMAIN layout)
    IN  [k \in 1..Len(matched) |->
            LET rect    == layout[TitleKey(matched[k].title)]
                offsets == get_extended_frame_offsets(w, matched[k].hwnd)
            IN  [hwnd |-> matched[k].hwnd,
                 rect |-> Rect(rect.x - offsets[1], rect.y,
                               rect.width + offsets[1] + offsets[3],
                               rect.height + offsets[4])]]

\* v.__dict__ of a Rect as json.dump writes it: an object, here the sequence
\* of its members in field order.
RectToJson(v) ==
    << <<"x", v.x>>, <<"y", v.y>>, <<"width", v.width>>, <<"height", v.height>> >>

\* The value of member key of a JSON object.
Member(obj, key) == obj[CHOOSE i \in 1..Len(obj) : obj[i][1] = key][2]

RectFromJson_swapped(v) ==
    Rect(Member(v, "x"), Member(v, "y"), Member(v, "height"), Member(v, "width"))

\* Rect(**v) of a JSON object read back by json.load
RectFromJson(v) ==
    Rect(Member(v, "x"), Member(v, "y"), Member(v, "width"), Member(v, "height"))

\* LayoutStore._save when the write succeeds: the document written.
_save(layouts) ==
    [name \in DOMAIN layouts |->
        [windows |-> [k \in DOMAIN layouts[name] |-> RectToJson(layouts[name][k])]]]

\* What open(path, "w") followed by an interrupted json.dump leaves: the
\* beginning of a document, which json.load rejects.
Truncated == [truncated |-> TRUE]

\* How the write in _save can end: it succeeds, open(path, "w") raises
\* before the file is touched, or json.dump raises after open has emptied
\* the file.
WriteOutcomes == {"ok", "open_fails", "interrupted"}

\* layouts.json after _save has tried to write document over file.
_write(file, document, outcome) ==
    CASE outcome = "ok" -> document
      [] outcome = "open_fails" -> file
      [] OTHER -> Truncated

\* LayoutStore._load into the empty store of a new LayoutStore: nothing
\* when there is no file, and nothing when json.load raises.
_load(file) ==
    IF file = None \/ file = Truncated THEN << >>
    ELSE [name \in DOMAIN file |->
             [k \in DOMAIN file[name].windows |-> RectFromJson(file[name].windows[k])]]

-----------------------------------------------------------------------------
(* Configuration                                                           *)

\* Config(): every field at its default
DefaultConfig == [gap |-> gap, margin |-> margin]

\* self.__dict__ as json.dump writes it (the fields the model keeps)
ConfigToJson(c) == << <<"gap", c.gap>>, <<"margin", c.margin>> >>

\* The member names of a JSON object.
Keys(obj) == {obj[i][1] : i \in 1..Len(obj)}

\* cls(**data) for an object whose members are all fields of Config: a
\* field the object lacks keeps its default.
ConfigFromJson(data) ==
    [gap    |-> IF "gap" \in Keys(data) THEN Member(data, "gap") ELSE gap,
     margin |-> IF "margin" \in Keys(data) THEN Member(data, "margin") ELSE margin]

\* Content of a file that json.load rejects: an object that is opened and
\* never closed.
Malformed == << <<"{">> >>

\* wm_config.json holding data, readable and writable.
ConfigFile(data) == [exists |-> TRUE, readable |-> TRUE, writable |-> TRUE, data |-> data]

\* Config.save: open(path, "w") raises when the file may not be written.
save(c, file) ==
    IF file.writable
    THEN [result |-> "returned",
          file |-> [file EXCEPT !.exists = TRUE, !.data = ConfigToJson(c)]]
    ELSE [result |-> "raised", file |-> file]

\* Config.load: the outcome ("returned" with the configuration, or "raised"
\* when an exception leaves it) and the file afterwards.
load(file) ==
    IF ~file.exists
    THEN \* except FileNotFoundError: config = cls(); config.save(path)
         [result |-> save(DefaultConfig, file).result,
          config |-> IF save(DefaultConfig, file).result = "returned"
                     THEN DefaultConfig ELSE None,
          file   |-> save(DefaultConfig, file).file]
    ELSE IF \/ ~file.readable
            \/ file.data = Malformed
            \/ ~(Keys(file.data) \subseteq {"gap", "margin"})
         THEN \* except Exception: return cls()
              [result |-> "returned", config |-> DefaultConfig, file |-> file]
         ELSE [result |-> "returned", config |-> ConfigFromJson(file.data), file |-> file]

\* The desktop after a sequence of MoveWindow calls.
RECURSIVE ApplyMoves(_, _)
ApplyMoves(w, moves) ==
    IF moves = <<>> THEN w
    ELSE LET m == Head(moves)
         IN  ApplyMoves(MoveWindow(w, m.hwnd, m.rect.x, m.rect.y,
                                   m.rect.width, m.rect.height),
                        Tail(moves))

-----------------------------------------------------------------------------
(* Window Manager: validation                                              *)

_get_valid_hwnd_no_title(w, arg, fg) ==
    LET hwnd == IF arg # 0 THEN arg ELSE fg
    IN  IF ~IsWindow(w, hwnd) \/ ~IsWindowVisible(w, hwnd) THEN 0
        ELSE IF IsToolWindow(w, hwnd) \/ IsChildWindow(w, hwnd) THEN 0
        ELSE IF GetClassName(w, hwnd) \in excluded_classes THEN 0
        ELSE hwnd

\* WindowManager._get_valid_hwnd: arg is the handle given (0: none), fg what
\* GetForegroundWindow answers; 0 stands for the result None.
_get_valid_hwnd(w, arg, fg) ==
    LET hwnd == IF arg # 0 THEN arg ELSE fg
    IN  IF ~IsWindow(w, hwnd) \/ ~IsWindowVisible(w, hwnd) THEN 0
        ELSE IF IsToolWindow(w, hwnd) \/ IsChildWindow(w, hwnd) THEN 0
        ELSE IF GetClassName(w, hwnd) \in excluded_classes THEN 0
        ELSE IF GetWindowText(w, hwnd) \in excluded_titles THEN 0
        ELSE hwnd

\* WindowManager._prepare_window on a live window: the desktop after it.
_prepare_window(w, h) ==
    IF w[h].showCmd = "maximized" THEN ShowWindowRestore(w, h) ELSE w

-----------------------------------------------------------------------------
(* The state at start                                                      *)

\* An application window as it is when the manager is constructed.
AppWindow(h, kind) ==
    [exists |-> TRUE, kind |-> kind, visible |-> TRUE, showCmd |-> "normal",
     rect |-> Rect(100 * h, 100, 800, 600), normal |-> Rect(100 * h, 100, 800, 600),
     topmost |-> FALSE, layered |-> FALSE, alpha |-> 255]

\* The windows handle 1 may stand for: an application window (restored,
\* maximized on the primary display, minimized, or hidden), a window that
\* is not eligible for what it is, or a window closed before the first call.
FirstWindows ==
    { AppWindow(1, "app"),
      [AppWindow(1, "app") EXCEPT !.showCmd = "maximized", !.rect = Rect(-7, -7, 1934, 1054)],
      [AppWindow(1, "app") EXCEPT !.showCmd = "minimized",
                                  !.rect = Rect(-32000, -32000, 160, 28)],
      [AppWindow(1, "app") EXCEPT !.visible = FALSE],
      AppWindow(1, "tool"),
      AppWindow(1, "child"),
      AppWindow(1, "tray"),
      AppWindow(1, "titled"),
      Dead }

\* Handle 2 is a plain application window.
SecondWindow == AppWindow(2, "plain")

\* The desktop and configuration at construction: the nominal one (both
\* displays enumerated, animation off) with any first window, and for the
\* restored and the maximized application window also every outcome of the
\* display enumeration and animation switched on.
Nominal(enumOk, infoOk, anim) == enumOk /\ infoOk = {1, 2} /\ ~anim

NoScen == [stage |-> 0, left |-> None]

\* No component has been called directly.
NoProbe == [op |-> "none"]

\* The record of a call: its arguments (req is the handle the call is about,
\* given or foreground), the locals of the handler, what it has done so far
\* (history entries pushed, MoveWindow calls made, windows restored from
\* maximized), the window and its history queue as they were at entry, and,
\* once it has ended, its result ("true", "false", or "raised" for an
\* exception that leaves the handler).
NoCall ==
    [op |-> "none", req |-> 0, hwnd |-> 0, arg |-> <<>>, result |-> "none",
     entry |-> None, monitor |-> None, target |-> None, start |-> None,
     tmonitor |-> None, offsets |-> <<0, 0, 0, 0>>, pushed |-> 0,
     moves |-> <<>>, restored |-> {}, prev |-> None, hist0 |-> <<>>]

Init ==
    /\ config = [gap |-> gap, margin |-> margin]
    /\ displays = OsMonitors
    /\ config_file = ConfigFile(ConfigToJson(config))
    /\ layout_file = None
    /\ probe = NoProbe
    /\ \E first \in FirstWindows, enumOk \in BOOLEAN, infoOk \in SUBSET {1, 2},
          anim \in BOOLEAN :
           /\ \/ Nominal(enumOk, infoOk, anim)
              \/ first.exists /\ first.kind = "app" /\ first.visible
                 /\ first.showCmd # "minimized"
                 /\ (anim => enumOk /\ infoOk = {1, 2})
                 /\ (~enumOk => infoOk = {})
           /\ win = [h \in Hwnds |-> IF h = 1 THEN first ELSE SecondWindow]
           /\ _monitors = _refresh(enumOk, infoOk)
           /\ animation_enabled = anim
    /\ _history = [h \in Hwnds |-> <<>>]
    /\ _layouts = << >>
    /\ clock = 0
    /\ pc = "idle"
    /\ call = NoCall
    /\ ncalls = 0
    /\ evicted = [h \in Hwnds |-> {}]
    /\ scen = [h \in Hwnds |-> NoScen]

-----------------------------------------------------------------------------
(* Bookkeeping of the scenario "tile LEFT_HALF, tile RIGHT_HALF, undo"     *)

Touches(c, h) ==
    \/ c.req = h
    \/ c.hwnd = h
    \/ h \in c.restored
    \/ \E i \in 1..Len(c.moves) : c.moves[i].hwnd = h

\* scen after call c has ended on desktop w: stage 1 after a successful
\* tile(LEFT_HALF) (with the rectangle it left the window at), 2 after a
\* successful tile(RIGHT_HALF) that follows it, 3 after a successful undo
\* that follows both; any other call on the window starts over.
ScenAfter(c, w) ==
    [h \in Hwnds |->
        IF ~Touches(c, h) THEN scen[h]
        ELSE IF c.op = "tile" /\ c.result = "true" /\ c.arg = "LEFT_HALF"
             THEN [stage |-> 1, left |-> w[h].rect]
        ELSE IF c.op = "tile" /\ c.result = "true" /\ c.arg = "RIGHT_HALF"
                /\ scen[h].stage = 1
             THEN [stage |-> 2, left |-> scen[h].left]
        ELSE IF c.op = "undo" /\ c.result = "true" /\ scen[h].stage = 2
             THEN [stage |-> 3, left |-> scen[h].left]
        ELSE NoScen]

\* The handler ends with call record c.
Done(c) ==
    /\ pc' = "done"
    /\ call' = c
    /\ scen' = ScenAfter(c, win')

\* A call starts: op with argument arg on the handle given (arg_hwnd, 0 for
\* none) while fg is the foreground window.
Begin(op, arg, arg_hwnd, fg) ==
    [NoCall EXCEPT !.op = op, !.arg = arg,
                   !.req = IF arg_hwnd # 0 THEN arg_hwnd ELSE fg,
                   !.hwnd = _get_valid_hwnd(win, arg_hwnd, fg),
                   !.entry = IF _get_valid_hwnd(win, arg_hwnd, fg) # 0
                             THEN win[_get_valid_hwnd(win, arg_hwnd, fg)] ELSE None,
                   !.hist0 = IF _get_valid_hwnd(win, arg_hwnd, fg) # 0
                             THEN _history[_get_valid_hwnd(win, arg_hwnd, fg)] ELSE <<>>]

HwndArgs == {0} \cup Hwnds

\* GetForegroundWindow is asked only when no handle is given.
Foreground(arg_hwnd) == IF arg_hwnd = 0 THEN HwndArgs ELSE {0}

\* The inputs tried
ModesTried == {"LEFT_HALF", "RIGHT_HALF"}
GridsTried == { <<0, 1, 2, 3>> }
DirectionsTried == {"next", "prev"}
AlphasTried == {300}
LayoutsTried == {"grid", "cascade"}
SaveNamesTried == {"A"}

Range(q) == {q[i] : i \in 1..Len(q)}

-----------------------------------------------------------------------------
(* Steps shared by tile, grid and move_to_monitor                          *)

\* What a handler computes from the monitor of its window: tile and grid the
\* target rectangle, move_to_monitor the neighbouring monitor.
TargetFor(c, monitor) ==
    CASE c.op = "tile" -> calculate(c.arg, monitor.work_area)
      [] c.op = "grid" -> calculate_grid(c.arg[1], c.arg[2], c.arg[3], c.arg[4],
                                         monitor.work_area)
      [] OTHER -> IF c.arg = "next" THEN get_next_monitor(_monitors, monitor)
                  ELSE get_prev_monitor(_monitors, monitor)

\* self.history.save_state(hwnd), then get_monitor_for_window(hwnd) and the
\* early return when there is no monitor.  Target(monitor) is what the
\* handler computes from the monitor; it goes on at pc next.
SnapshotStep(next) ==
    LET h       == call.hwnd
        hist    == save_state(_history, win, h, clock + 1)
        pushed  == IF hist # _history THEN 1 ELSE 0
        monitor == get_monitor_for_window(_monitors, win, h)
    IN  /\ _history' = hist
        /\ clock' = clock + pushed
        /\ evicted' = [evicted EXCEPT ![h] = @ \cup (Range(_history[h]) \ Range(hist[h]))]
        /\ UNCHANGED <<config, displays, config_file, probe, win, _monitors, animation_enabled, _layouts, layout_file, ncalls>>
        /\ IF monitor = None
           THEN Done([call EXCEPT !.pushed = pushed, !.result = "false"])
           ELSE /\ pc' = next
                /\ call' = [call EXCEPT !.pushed = pushed, !.monitor = monitor,
                                        !.target = TargetFor(call, monitor)]
                /\ UNCHANGED scen

\* self.animation_engine.animate(hwnd, current_rect, target_rect, offsets):
\* MoveWindow raises when the window is gone.
AnimateStep ==
    LET h == call.hwnd
    IN  /\ UNCHANGED <<config, displays, config_file, probe, _monitors, animation_enabled, _history, _layouts, layout_file, clock,
                       ncalls, evicted>>
        /\ IF ~IsWindow(win, h)
           THEN /\ UNCHANGED win
                /\ Done([call EXCEPT !.result = "raised"])
           ELSE LET positions == animate(animation_enabled, call.start, call.target)
                    moves == [i \in 1..Len(positions) |->
                                 [hwnd |-> h,
                                  rect |-> _apply_position(positions[i], call.offsets)]]
                IN  /\ win' = ApplyMoves(win, moves)
                    /\ Done([call EXCEPT !.moves = moves, !.result = "true"])

\* A call begins with _get_valid_hwnd and the early return on None.
ValidateStep(c, next) ==
    /\ pc = "idle"
    /\ ncalls < MaxCalls
    /\ ncalls' = ncalls + 1
    /\ UNCHANGED <<config, displays, config_file, probe, win, _monitors, animation_enabled, _history, _layouts, layout_file, clock,
                   evicted>>
    /\ IF c.hwnd = 0
       THEN Done([c EXCEPT !.result = "false"])
       ELSE pc' = next /\ call' = c /\ UNCHANGED scen

\* self._prepare_window(hwnd); get_extended_frame_offsets(hwnd);
\* get_window_info(hwnd).rect: GetWindowPlacement raises for a window that
\* is gone, and so does reading .rect of None.
MeasureStep(next) ==
    LET h == call.hwnd
    IN  /\ UNCHANGED <<config, displays, config_file, probe, _monitors, animation_enabled, _history, _layouts, layout_file, clock,
                       ncalls, evicted>>
        /\ IF ~IsWindow(win, h)
           THEN /\ UNCHANGED win
                /\ Done([call EXCEPT !.result = "raised"])
           ELSE LET w1 == _prepare_window(win, h)
                IN  /\ win' = w1
                    /\ pc' = next
                    /\ call' = [call EXCEPT
                                  !.restored = IF w1 # win THEN {h} ELSE {},
                                  !.offsets = get_extended_frame_offsets(w1, h),
                                  !.start = get_window_info(w1, h).rect]
                    /\ UNCHANGED scen

-----------------------------------------------------------------------------
(* WindowManager.tile                                                      *)

TileValidate(mode, arg_hwnd, fg) ==
    ValidateStep(Begin("tile", mode, arg_hwnd, fg), "tile_snapshot")

TileSnapshot ==
    /\ pc = "tile_snapshot"
    /\ SnapshotStep("tile_prepare")

TilePrepare ==
    /\ pc = "tile_prepare"
    /\ MeasureStep("tile_animate")

TileAnimate ==
    /\ pc = "tile_animate"
    /\ AnimateStep

(* WindowManager.grid                                                      *)

GridValidate(cell, arg_hwnd, fg) ==
    ValidateStep(Begin("grid", cell, arg_hwnd, fg), "grid_snapshot")

GridSnapshot ==
    /\ pc = "grid_snapshot"
    /\ SnapshotStep("grid_prepare")

GridPrepare ==
    /\ pc = "grid_prepare"
    /\ MeasureStep("grid_animate")

GridAnimate ==
    /\ pc = "grid_animate"
    /\ AnimateStep

(* WindowManager.move_to_monitor                                           *)

\* The rectangle with the same relative place in work area t as rect has in
\* work area c: int(t.x + ((rect.x - c.x) / c.width) * t.width) ..., the
\* float quotients and products taken exactly.
Project(rect, c, t) ==
    Rect(TruncDiv(t.x * c.width + (rect.x - c.x) * t.width, c.width),
         TruncDiv(t.y * c.height + (rect.y - c.y) * t.height, c.height),
         TruncDiv(rect.width * t.width, c.width),
         TruncDiv(rect.height * t.height, c.height))

MoveValidate(direction, arg_hwnd, fg) ==
    ValidateStep(Begin("move_to_monitor", direction, arg_hwnd, fg), "move_snapshot")

\* save_state, the current monitor and its neighbour
MoveSnapshot ==
    /\ pc = "move_snapshot"
    /\ SnapshotStep("move_prepare")

\* get_window_info and its early return, the new rectangle,
\* _prepare_window and the frame offsets.  SnapshotStep has left the target
\* monitor in call.target.
MovePrepare ==
    /\ pc = "move_prepare"
    /\ LET h    == call.hwnd
           info == get_window_info(win, h)
       IN  /\ UNCHANGED <<config, displays, config_file, probe, _monitors, animation_enabled, _history, _layouts, layout_file, clock,
                          ncalls, evicted>>
           /\ IF info = None
              THEN /\ UNCHANGED win
                   /\ Done([call EXCEPT !.result = "false"])
              ELSE LET w1 == _prepare_window(win, h)
                   IN  /\ win' = w1
                       /\ pc' = "move_animate"
                       /\ call' = [call EXCEPT
                                     !.tmonitor = call.target,
                                     !.target = Project(info.rect, call.monitor.work_area,
                                                        call.target.work_area),
                                     !.restored = IF w1 # win THEN {h} ELSE {},
                                     !.offsets = get_extended_frame_offsets(w1, h),
                                     !.start = info.rect]
                       /\ UNCHANGED scen

MoveAnimate ==
    /\ pc = "move_animate"
    /\ AnimateStep

(* WindowManager.undo                                                      *)

UndoValidate(arg_hwnd, fg) ==
    ValidateStep(Begin("undo", <<>>, arg_hwnd, fg), "undo_apply")

\* get_previous_state and the early return on None, then the frame offsets
\* and _apply_position, whose MoveWindow raises when the window is gone.
UndoApply ==
    /\ pc = "undo_apply"
    /\ LET h == call.hwnd
           r == get_previous_state(_history, h)
       IN  /\ _history' = r.hist
           /\ UNCHANGED <<config, displays, config_file, probe, _monitors, animation_enabled, _layouts, layout_file, clock, ncalls,
                          evicted>>
           /\ IF r.ret = None
              THEN /\ UNCHANGED win
                   /\ Done([call EXCEPT !.result = "false"])
              ELSE IF ~IsWindow(win, h)
              THEN /\ UNCHANGED win
                   /\ Done([call EXCEPT !.prev = r.ret, !.result = "raised"])
              ELSE LET offsets == get_extended_frame_offsets(win, h)
                       moves   == << [hwnd |-> h,
                                      rect |-> _apply_position(r.ret.rect, offsets)] >>
                   IN  /\ win' = ApplyMoves(win, moves)
                       /\ Done([call EXCEPT !.prev = r.ret, !.offsets = offsets,
                                            !.moves = moves, !.result = "true"])

(* Window controls                                                         *)

\* A handler that runs in one step: cbegin is the call record at entry.
AtomicCall(cbegin) ==
    /\ pc = "idle"
    /\ ncalls < MaxCalls
    /\ ncalls' = ncalls + 1
    /\ UNCHANGED <<config, displays, config_file, probe, _monitors, animation_enabled, _history, clock, evicted>>

\* WindowManager.toggle_always_on_top
ToggleAlwaysOnTop(arg_hwnd, fg) ==
    LET c == Begin("toggle_always_on_top", <<>>, arg_hwnd, fg)
    IN  /\ AtomicCall(c)
        /\ UNCHANGED <<_layouts, layout_file>>
        /\ IF c.hwnd = 0
           THEN /\ UNCHANGED win
                /\ Done([c EXCEPT !.result = "false"])
           ELSE /\ win' = [win EXCEPT ![c.hwnd].topmost = ~@]
                /\ Done([c EXCEPT !.result = "true"])

Max(a, b) == IF a >= b THEN a ELSE b
Min(a, b) == IF a <= b THEN a ELSE b

\* WindowManager.set_transparency
SetTransparency(alpha, arg_hwnd, fg) ==
    LET c == Begin("set_transparency", alpha, arg_hwnd, fg)
    IN  /\ AtomicCall(c)
        /\ UNCHANGED <<_layouts, layout_file>>
        /\ IF c.hwnd = 0
           THEN /\ UNCHANGED win
                /\ Done([c EXCEPT !.result = "false"])
           ELSE /\ win' = [win EXCEPT ![c.hwnd].layered = TRUE,
                                      ![c.hwnd].alpha = Max(0, Min(255, alpha))]
                /\ Done([c EXCEPT !.result = "true"])

(* WindowManager.tile_all_visible                                          *)

\* int(n**0.5) + (1 if n**0.5 % 1 else 0)
CeilSqrt(n) == CHOOSE c \in 0..n : c * c >= n /\ (c = 0 \/ (c - 1) * (c - 1) < n)

RECURSIVE PrepareAll(_, _)
PrepareAll(w, windows) ==
    IF windows = <<>> THEN w
    ELSE PrepareAll(_prepare_window(w, Head(windows).hwnd), Tail(windows))

\* int(n**0.5) + (1 if n**0.5 % 1 else 0): the integer part of the square
\* root, and one more when the root is not whole.
GridCols(n) ==
    LET root == CHOOSE r \in 0..n : r * r <= n /\ (r + 1) * (r + 1) > n
    IN  root + (IF root * root # n THEN 1 ELSE 0)

grid_cell_by_rows(i, n) ==
    LET cols == GridCols(n)
        rows == FloorDiv(n + cols - 1, cols)
    IN  [rows |-> rows, cols |-> cols, row |-> FloorDiv(i, rows), col |-> i % rows]

\* The grid of tile_all_visible for n windows and the cell of the i-th
\* window (from 0) in it.
grid_cell(i, n) ==
    LET cols == GridCols(n)
        rows == FloorDiv(n + cols - 1, cols)
    IN  [rows |-> rows, cols |-> cols, row |-> FloorDiv(i, cols), col |-> i % cols]

\* The target of the i-th window (from 0) of n
TileAllTarget(layout, i, n, work_area) ==
    IF layout = "grid"
    THEN LET cell == grid_cell(i, n)
         IN  calculate_grid(cell.row, cell.col, cell.rows, cell.cols, work_area)
    ELSE LET base_rect == Rect(work_area.x + config.margin, work_area.y + config.margin,
                               TruncDiv(work_area.width * 6, 10),
                               TruncDiv(work_area.height * 6, 10))
         IN  Rect(base_rect.x + i * CASCADE_OFFSET, base_rect.y + i * CASCADE_OFFSET,
                  base_rect.width, base_rect.height)

TileAllVisible(layout) ==
    LET c       == [NoCall EXCEPT !.op = "tile_all_visible", !.arg = layout]
        filter_func(i) == ~i.is_minimized /\ i.class_name \notin excluded_classes
        windows == SelectSeq(enumerate_windows(win), filter_func)
        monitor == primary(_monitors)
        n       == Len(windows)
    IN  /\ AtomicCall(c)
        /\ UNCHANGED <<_layouts, layout_file>>
        /\ IF windows = <<>> \/ monitor = None
           THEN /\ UNCHANGED win
                /\ Done([c EXCEPT !.result = "false"])
           ELSE LET w1    == PrepareAll(win, windows)
                    moves == [k \in 1..n |->
                                [hwnd |-> windows[k].hwnd,
                                 rect |-> _apply_position(
                                     TileAllTarget(layout, k - 1, n, monitor.work_area),
                                     get_extended_frame_offsets(w1, windows[k].hwnd))]]
                IN  /\ win' = ApplyMoves(w1, moves)
                    /\ Done([c EXCEPT !.monitor = monitor, !.moves = moves,
                                      !.restored = {h \in Hwnds : w1[h] # win[h]},
                                      !.result = "true"])

(* Layout presets                                                          *)

\* WindowManager.save_layout
SaveLayout(name) ==
    LET c == [NoCall EXCEPT !.op = "save_layout", !.arg = name]
    IN  /\ AtomicCall(c)
        /\ _layouts' = save_current(_layouts, win, name)
        /\ layout_file' = _save(save_current(_layouts, win, name))
        /\ UNCHANGED win
        /\ Done([c EXCEPT !.result = "returned"])

\* WindowManager.restore_layout
RestoreLayout(name) ==
    LET c == [NoCall EXCEPT !.op = "restore_layout", !.arg = name]
    IN  /\ AtomicCall(c)
        /\ UNCHANGED <<_layouts, layout_file>>
        /\ IF name \notin DOMAIN _layouts
           THEN /\ UNCHANGED win
                /\ Done([c EXCEPT !.result = "false"])
           ELSE LET moves == restore_moves(_layouts, win, name)
                IN  /\ win' = ApplyMoves(win, moves)
                    /\ Done([c EXCEPT !.moves = moves, !.result = "true"])

-----------------------------------------------------------------------------
(* The caller and the rest of the desktop                                  *)

\* The caller takes the result; the next call may start.
Return ==
    /\ pc = "done"
    /\ pc' = "idle"
    /\ call' = NoCall
    /\ UNCHANGED <<config, displays, config_file, probe, win, _monitors, animation_enabled, _history, _layouts, layout_file, clock,
                   ncalls, evicted, scen>>

\* Another process closes the window a call is working on, between two
\* steps of the call.  (A window closed between two calls is the closed
\* window of FirstWindows.)
CloseWindow(h) ==
    /\ pc \notin {"idle", "done"}
    /\ h = call.hwnd
    /\ win[h].exists
    /\ win' = [win EXCEPT ![h] = Dead]
    /\ scen' = [scen EXCEPT ![h] = NoScen]
    /\ UNCHANGED <<config, displays, config_file, probe, _monitors, animation_enabled, _history, _layouts, layout_file, clock, pc,
                   call, ncalls, evicted>>

Next ==
    \/ \E mode \in ModesTried, a \in HwndArgs : \E fg \in Foreground(a) : TileValidate(mode, a, fg)
    \/ TileSnapshot
    \/ TilePrepare
    \/ TileAnimate
    \/ \E cell \in GridsTried, a \in HwndArgs : \E fg \in Foreground(a) : GridValidate(cell, a, fg)
    \/ GridSnapshot
    \/ GridPrepare
    \/ GridAnimate
    \/ \E d \in DirectionsTried, a \in HwndArgs : \E fg \in Foreground(a) : MoveValidate(d, a, fg)
    \/ MoveSnapshot
    \/ MovePrepare
    \/ MoveAnimate
    \/ \E a \in HwndArgs : \E fg \in Foreground(a) : UndoValidate(a, fg)
    \/ UndoApply
    \/ \E a \in HwndArgs : \E fg \in Foreground(a) : ToggleAlwaysOnTop(a, fg)
    \/ \E alpha \in AlphasTried, a \in HwndArgs : \E fg \in Foreground(a) :
           SetTransparency(alpha, a, fg)
    \/ \E layout \in LayoutsTried : TileAllVisible(layout)
    \/ \E name \in SaveNamesTried : SaveLayout(name)
    \/ \E name \in LayoutNames : RestoreLayout(name)
    \/ Return
    \/ \E h \in Hwnds : CloseWindow(h)

Spec == Init /\ [][Next]_vars

-----------------------------------------------------------------------------
(* Properties                                                              *)

\* Eligible for manipulation: a live, visible top-level window that is no
\* tool window and no child, with class and exact title outside the
\* excluded sets.
Eligible(w, h) ==
    /\ h \in Hwnds
    /\ w[h].exists
    /\ w[h].visible
    /\ ~IsToolWindow(w, h)
    /\ ~IsChildWindow(w, h)
    /\ GetClassName(w, h) \notin excluded_classes
    /\ GetWindowText(w, h) \notin excluded_titles

HandleOps ==
    {"tile", "grid", "move_to_monitor", "undo", "toggle_always_on_top",
     "set_transparency"}

TilingOps == {"tile", "grid", "move_to_monitor"}

\* C1: after a successful tile(LEFT_HALF), then a successful tile(RIGHT_HALF),
\* then a successful undo on the same window, the window is at the rectangle
\* tile(LEFT_HALF) left it at.
C1_UndoRestoresLeftHalf ==
    \A h \in Hwnds : scen[h].stage = 3 => win[h].rect = scen[h].left

\* C2: every window a repositioning operation has moved is eligible at the
\* time of the move.
C2_OnlyEligibleMoved ==
    pc = "done" => \A i \in 1..Len(call.moves) : Eligible(win, call.moves[i].hwnd)

\* C3: a call of tile, grid, move_to_monitor, undo, toggle_always_on_top or
\* set_transparency whose handle does not resolve to an eligible window ends
\* at once with failure, and leaves every window and every history queue as
\* it was.
C3_InvalidTargetNoMutation ==
    [][ (pc = "idle" /\ pc' # "idle" /\ call'.op \in HandleOps
            /\ ~Eligible(win, call'.req))
        => (pc' = "done" /\ call'.result = "false" /\ win' = win
            /\ _history' = _history) ]_vars

\* A tile of a live but ineligible window 1 has failed while window 2 has
\* history.
C3_Witness ==
    /\ pc = "done"
    /\ call.op = "tile"
    /\ call.result = "false"
    /\ call.req = 1
    /\ win[1].exists
    /\ _history[2] # <<>>

\* C4: a tile, grid or move_to_monitor that returns failure has pushed no
\* history entry, restored no window and moved no window.
C4_NoPartialApplication ==
    (pc = "done" /\ call.op \in TilingOps /\ call.result = "false")
        => (call.pushed = 0 /\ call.moves = <<>> /\ call.restored = {})

\* C5: tile, grid, move_to_monitor and undo end with a boolean result, also
\* when the window is closed while they run.
C5_ClosureTolerated ==
    (pc = "done" /\ call.op \in TilingOps \cup {"undo"})
        => call.result \in {"true", "false"}

\* The rectangle tile hands to MoveWindow last: calculate(mode, work area of
\* the monitor of the window as it was at entry), adjusted by the frame
\* offsets of the window.
TileExpected ==
    LET h       == call.hwnd
        monitor == get_monitor_for_window(_monitors, [win EXCEPT ![h] = call.entry], h)
    IN  _apply_position(calculate(call.arg, monitor.work_area),
                        get_extended_frame_offsets(win, h))

C8_GetPreviousState ==
    [][ (pc = "undo_apply" /\ pc' = "done")
        => LET h == call.hwnd
               q == _history[h]
           IN  /\ Len(q) < 2 => (call'.prev = None /\ _history' = _history)
               /\ Len(q) = 2 =>
                      /\ call'.prev = q[1]
                      /\ get_previous_state(_history', h).ret = None
                      /\ get_previous_state(_history', h).hist = _history' ]_vars

\* An undo has got the older of two entries.
C8_Witness ==
    /\ pc = "done"
    /\ call.op = "undo"
    /\ call.prev # None
    /\ Len(call.hist0) = 2
    /\ call.prev = call.hist0[1]

\* C9: an undo that succeeds removes the newest entry of its window's queue
\* and adds none, an undo that does not succeed leaves the queue as it is,
\* and no undo changes the queue of another window.
C9_UndoConsumesOne ==
    [][ (pc # "done" /\ pc' = "done" /\ call'.op = "undo")
        => LET h == call'.hwnd
           IN  /\ call'.result = "true" =>
                      _history'[h] = SubSeq(_history[h], 1, Len(_history[h]) - 1)
               /\ call'.result # "true" => _history' = _history
               /\ \A g \in Hwnds \ {h} : _history'[g] = _history[g] ]_vars

\* The queue of window h after one entry for rect has been pushed at time
\* now onto queue q of capacity history_size.
PushedOnto(q, h, rect, now) ==
    LET all == Append(q, [hwnd |-> h, rect |-> rect, timestamp |-> now])
    IN  IF Len(all) > history_size
        THEN SubSeq(all, Len(all) - history_size + 1, Len(all))
        ELSE all

\* C10: a tile, grid or move_to_monitor that returns true has pushed exactly
\* one entry onto the queue of its window, holding the rectangle the window
\* had when the call began, before any restore or move.
C10_SnapshotPrecedesMove ==
    (pc = "done" /\ call.op \in TilingOps /\ call.result = "true")
        => /\ call.pushed = 1
           /\ _history[call.hwnd] =
                  PushedOnto(call.hist0, call.hwnd, call.entry.rect, clock)

\* A move_to_monitor of a maximized window has returned true, the window
\* now elsewhere.
C10_Witness ==
    /\ pc = "done"
    /\ call.op = "move_to_monitor"
    /\ call.result = "true"
    /\ call.restored # {}
    /\ win[call.hwnd].rect # call.entry.rect

\* C11: no position is applied to a window that is still maximized: every
\* window an operation has moved was restored first, so it is not maximized
\* when the operation ends.
C11_RestoreBeforeMove ==
    pc = "done" =>
        \A i \in 1..Len(call.moves) :
            LET h == call.moves[i].hwnd
            IN  win[h].exists => win[h].showCmd # "maximized"

-----------------------------------------------------------------------------
(* The layout calculator called directly, under any configuration          *)

\* Rows and columns of the grids calculated.
MaxGrid == 3

\* Config.gap and Config.margin as Config.load may read them.
Gaps == {0, 10, 11}

Margins == {0, 15}

\* Work areas handed to the calculator: those of the displays, with odd
\* sizes and a small one beside them.
WorkAreas ==
    { Rect(x, 0, w, h) : x \in {0, 1920}, w \in {1920, 1921, 1280}, h \in {1040, 1041} }
        \cup { Rect(0, 0, 401, 300), Rect(-1280, 24, 1280, 1000) }

\* The parts of the state a direct call of a component does not use.
Quiet ==
    /\ _history = [h \in Hwnds |-> <<>>]
    /\ _layouts = << >>
    /\ layout_file = None
    /\ clock = 0
    /\ pc = "idle"
    /\ call = NoCall
    /\ ncalls = 0
    /\ evicted = [h \in Hwnds |-> {}]
    /\ scen = [h \in Hwnds |-> NoScen]
    /\ animation_enabled = FALSE

\* LayoutCalculator(config) for a configuration read by Config.load
CalcInit ==
    /\ config \in [gap : Gaps, margin : Margins]
    /\ displays = OsMonitors
    /\ config_file = ConfigFile(ConfigToJson(config))
    /\ _monitors = SortByX(OsMonitors)
    /\ win = [h \in Hwnds |-> AppWindow(h, "plain")]
    /\ probe = NoProbe
    /\ Quiet

\* LayoutCalculator.calculate(mode, work_area), for every mode
Calculate(work_area) ==
    /\ probe' = [op |-> "calculate", work_area |-> work_area,
                 result |-> [mode \in TileModes |-> calculate(mode, work_area)]]
    /\ UNCHANGED <<win, _monitors, animation_enabled, _history, _layouts, clock, pc,
                   call, ncalls, evicted, scen, config, displays, config_file, layout_file>>

\* LayoutCalculator.calculate_grid(row, col, rows, cols, work_area), for
\* every cell of the grid
CalculateGrid(rows, cols, work_area) ==
    /\ probe' = [op |-> "calculate_grid", rows |-> rows, cols |-> cols,
                 work_area |-> work_area,
                 result |-> [cell \in (0..(rows - 1)) \X (0..(cols - 1)) |->
                               calculate_grid(cell[1], cell[2], rows, cols, work_area)]]
    /\ UNCHANGED <<win, _monitors, animation_enabled, _history, _layouts, clock, pc,
                   call, ncalls, evicted, scen, config, displays, config_file, layout_file>>

CalcNext ==
    \/ \E work_area \in WorkAreas : Calculate(work_area)
    \/ \E rows \in 1..MaxGrid, cols \in 1..MaxGrid, work_area \in WorkAreas :
           CalculateGrid(rows, cols, work_area)

CalcSpec == CalcInit /\ [][CalcNext]_vars

\* C12, amended: with gap 10 and margin 15, calculate on the work area
\* (0,0,1920,1040) gives Rect(15,15,940,1010) for LEFT_HALF and
\* Rect(965,15,940,1010) for RIGHT_HALF.
C12_HalvesOf1920 ==
    (probe.op = "calculate" /\ config = DefaultConfig
        /\ probe.work_area = Rect(0, 0, 1920, 1040))
    => /\ probe.result["LEFT_HALF"] = Rect(15, 15, 940, 1010)
       /\ probe.result["RIGHT_HALF"] = Rect(965, 15, 940, 1010)

\* C12 as stated: the halves are Rect(15,15,942,1010) and
\* Rect(967,15,942,1010).
C12_HalvesAsStated ==
    (probe.op = "calculate" /\ config = DefaultConfig
        /\ probe.work_area = Rect(0, 0, 1920, 1040))
    => /\ probe.result["LEFT_HALF"] = Rect(15, 15, 942, 1010)
       /\ probe.result["RIGHT_HALF"] = Rect(967, 15, 942, 1010)

\* calculate has been called on (0,0,1920,1040) under the default
\* configuration.
C12_Witness ==
    /\ probe.op = "calculate"
    /\ config = DefaultConfig
    /\ probe.work_area = Rect(0, 0, 1920, 1040)
    /\ probe.result["LEFT_HALF"].width = 940

\* C13: the widths of LEFT_HALF and RIGHT_HALF plus the gap make W - 2m, or
\* one pixel less; RIGHT_HALF starts exactly the gap after LEFT_HALF ends;
\* both have y = work_area.y + m and height H - 2m.
C13_HalvesPartition ==
    probe.op = "calculate" =>
        LET left  == probe.result["LEFT_HALF"]
            right == probe.result["RIGHT_HALF"]
            area  == probe.work_area
            inset == area.width - 2 * config.margin
        IN  /\ inset - (left.width + config.gap + right.width) \in {0, 1}
            /\ right.x = left.x + left.width + config.gap
            /\ left.y = area.y + config.margin
            /\ right.y = area.y + config.margin
            /\ left.height = area.height - 2 * config.margin
            /\ right.height = area.height - 2 * config.margin

\* The halves of a work area whose inset width less the gap is odd: one
\* pixel is lost.
C13_Witness ==
    /\ probe.op = "calculate"
    /\ config.gap > 0
    /\ config.margin > 0
    /\ (probe.work_area.width - 2 * config.margin)
         - (probe.result["LEFT_HALF"].width + config.gap
              + probe.result["RIGHT_HALF"].width) = 1

\* Two rectangles share no pixel.
Apart(a, b) ==
    \/ a.x + a.width <= b.x
    \/ b.x + b.width <= a.x
    \/ a.y + a.height <= b.y
    \/ b.y + b.height <= a.y

\* C14: the cells of a grid are pairwise non-overlapping; horizontally and
\* vertically adjacent cells are exactly the gap apart; the grid starts at
\* the inset corner and ends at the opposite inset corner less the
\* remainder of the integer division; the cell at column c has
\* x = work_area.x + margin + c * (cell_width + gap).
C14_GridPartition ==
    probe.op = "calculate_grid" =>
        LET cells == probe.result
            area  == probe.work_area
            rows  == probe.rows
            cols  == probe.cols
            g     == config.gap
            m     == config.margin
            last  == cells[<<rows - 1, cols - 1>>]
            right == area.x + area.width - m
            bottom == area.y + area.height - m
        IN  /\ \A a, b \in DOMAIN cells : a # b => Apart(cells[a], cells[b])
            /\ \A a \in DOMAIN cells :
                 /\ cells[a].width > 0 /\ cells[a].height > 0
                 /\ cells[a].x = area.x + m + a[2] * (cells[a].width + g)
                 /\ cells[a].y = area.y + m + a[1] * (cells[a].height + g)
                 /\ a[2] + 1 < cols =>
                        cells[<<a[1], a[2] + 1>>].x = cells[a].x + cells[a].width + g
                 /\ a[1] + 1 < rows =>
                        cells[<<a[1] + 1, a[2]>>].y = cells[a].y + cells[a].height + g
            /\ cells[<<0, 0>>].x = area.x + m
            /\ cells[<<0, 0>>].y = area.y + m
            /\ right - (last.x + last.width) \in 0..(cols - 1)
            /\ bottom - (last.y + last.height) \in 0..(rows - 1)

\* The 2 x 3 grid of the work area (0,0,1920,1040) under the default
\* configuration, whose cell width leaves a remainder.
C14_Witness ==
    /\ probe.op = "calculate_grid"
    /\ config = DefaultConfig
    /\ probe.rows = 2
    /\ probe.cols = 3
    /\ probe.work_area = Rect(0, 0, 1920, 1040)
    /\ probe.result[<<0, 1>>].x = 15 + 1 * (probe.result[<<0, 1>>].width + 10)
    /\ 3 * probe.result[<<0, 1>>].width + 2 * 10 < 1920 - 30

-----------------------------------------------------------------------------
(* The monitor manager called directly, on desktops of two or three        *)
(* displays                                                                *)

\* What EnumDisplayMonitors may report: the two displays alone, or with the
\* third one reported last or first.
DisplaySetups ==
    { OsMonitors, OsMonitors \o <<ThirdDisplay>>, <<ThirdDisplay>> \o OsMonitors }

DisplayHandles == {displays[i].handle : i \in 1..Len(displays)}

\* Window 1 on the primary display, on the display to its right, on the
\* display to its left, or closed.
PlacedWindows ==
    { AppWindow(1, "app"),
      [AppWindow(1, "app") EXCEPT !.rect = Rect(2000, 100, 800, 600),
                                  !.normal = Rect(2000, 100, 800, 600)],
      [AppWindow(1, "app") EXCEPT !.rect = Rect(-1000, 100, 800, 600),
                                  !.normal = Rect(-1000, 100, 800, 600)],
      Dead }

\* MonitorManager(): the list is what the first _refresh makes of the
\* displays.
MonInit ==
    /\ config = DefaultConfig
    /\ displays \in DisplaySetups
    /\ config_file = ConfigFile(ConfigToJson(config))
    /\ \E enumOk \in BOOLEAN, infoOk \in SUBSET {1, 2, 3} :
           /\ infoOk \subseteq DisplayHandles
           /\ _monitors = _refresh(enumOk, infoOk)
    /\ \E first \in PlacedWindows :
           win = [h \in Hwnds |-> IF h = 1 THEN first ELSE SecondWindow]
    /\ probe = NoProbe
    /\ Quiet

\* What a direct call of the monitor manager leaves alone.
MonFrame ==
    UNCHANGED <<win, animation_enabled, _history, _layouts, clock, pc, call, ncalls,
                evicted, scen, config, displays, config_file, layout_file>>

\* MonitorManager._refresh: the list is cleared, then filled from what the
\* OS reports.
Refresh(enumOk, infoOk) ==
    /\ infoOk \subseteq DisplayHandles
    /\ _monitors' = _refresh(enumOk, infoOk)
    /\ probe' = [op |-> "refresh", enumOk |-> enumOk, infoOk |-> infoOk,
                 before |-> _monitors]
    /\ MonFrame

\* The monitors n successive get_next_monitor (get_prev_monitor) calls
\* return, the first one applied to from.
RECURSIVE Visit(_, _, _, _)
Visit(mons, from, n, direction) ==
    IF n = 0 THEN <<>>
    ELSE LET to == IF direction = "next" THEN get_next_monitor(mons, from)
                   ELSE get_prev_monitor(mons, from)
         IN  <<to>> \o Visit(mons, to, n - 1, direction)

\* get_next_monitor (get_prev_monitor) applied len(_monitors) times,
\* starting from the primary monitor.
Walk(direction) ==
    /\ probe' = [op |-> "walk", direction |-> direction,
                 visited |-> Visit(_monitors, primary(_monitors), Len(_monitors),
                                   direction)]
    /\ UNCHANGED _monitors
    /\ MonFrame

\* MonitorManager.get_next_monitor(current), current any display's
\* MonitorInfo, in the list or not
GetNextMonitor(current) ==
    /\ probe' = [op |-> "get_next_monitor", current |-> current,
                 result |-> get_next_monitor(_monitors, current)]
    /\ UNCHANGED _monitors
    /\ MonFrame

\* MonitorManager.get_prev_monitor(current)
GetPrevMonitor(current) ==
    /\ probe' = [op |-> "get_prev_monitor", current |-> current,
                 result |-> get_prev_monitor(_monitors, current)]
    /\ UNCHANGED _monitors
    /\ MonFrame

\* MonitorManager.get_monitor_for_window(hwnd)
GetMonitorForWindow(hwnd) ==
    /\ probe' = [op |-> "get_monitor_for_window", hwnd |-> hwnd,
                 result |-> get_monitor_for_window(_monitors, win, hwnd)]
    /\ UNCHANGED _monitors
    /\ MonFrame

MonNext ==
    \/ \E enumOk \in BOOLEAN, infoOk \in SUBSET {1, 2, 3} : Refresh(enumOk, infoOk)
    \/ \E direction \in DirectionsTried : Walk(direction)
    \/ \E i \in 1..Len(displays) : GetNextMonitor(displays[i])
    \/ \E i \in 1..Len(displays) : GetPrevMonitor(displays[i])
    \/ \E hwnd \in Hwnds : GetMonitorForWindow(hwnd)

MonSpec == MonInit /\ [][MonNext]_vars

\* C15: with N monitors in the list, next applied N times from the primary
\* monitor ends at the primary monitor and has visited every monitor exactly
\* once; likewise prev.
C15_CyclicNavigation ==
    probe.op = "walk" =>
        LET N == Len(_monitors)
            v == probe.visited
        IN  /\ Len(v) = N
            /\ N > 0 => v[N] = primary(_monitors)
            /\ {v[i] : i \in 1..N} = Range(_monitors)
            /\ \A i, j \in 1..N : i # j => v[i] # v[j]

\* A walk backwards over three monitors, the primary one in the middle.
C15_Witness ==
    /\ probe.op = "walk"
    /\ probe.direction = "prev"
    /\ Len(_monitors) = 3
    /\ _monitors[2].is_primary
    /\ probe.visited[1] = _monitors[1]
    /\ probe.visited[3] = _monitors[2]

\* C16: next and prev return the monitor passed in whenever it is not in
\* the current list.
C16_NotFoundReturnsSame ==
    (probe.op \in {"get_next_monitor", "get_prev_monitor"}
        /\ probe.current \notin Range(_monitors))
    => probe.result = probe.current

Sorted(mons) ==
    \A i \in 1..(Len(mons) - 1) : mons[i].work_area.x <= mons[i + 1].work_area.x

\* C17: a refresh whose enumeration fails leaves the list as it was before;
\* after a refresh whose enumeration succeeds the list is sorted by
\* work-area x.
C17_RefreshKeepsListOnError ==
    probe.op = "refresh" =>
        /\ ~probe.enumOk => _monitors = probe.before
        /\ probe.enumOk => Sorted(_monitors)

\* C18: get_monitor_for_window returns the monitor of the list the window is
\* on; when that monitor is not in the list (or the window is gone) the one
\* flagged primary, or the first one if none is flagged; and none if and
\* only if the list is empty.
C18_FallbackToPrimary ==
    probe.op = "get_monitor_for_window" =>
        LET h    == probe.hwnd
            mons == _monitors
            r    == probe.result
            on   == {i \in 1..Len(mons) :
                        win[h].exists /\ mons[i].handle = MonitorFromWindow(win[h])}
            flagged == {i \in 1..Len(mons) : mons[i].is_primary}
        IN  /\ r = None <=> mons = <<>>
            /\ on # {} => (r \in Range(mons) /\ r.handle = MonitorFromWindow(win[h]))
            /\ (on = {} /\ flagged # {}) => (r \in Range(mons) /\ r.is_primary)
            /\ (on = {} /\ flagged = {} /\ mons # <<>>) => r = mons[1]

\* The window is on a display that is not in the list, and the list has a
\* flagged monitor that is not its first.
C18_Witness ==
    /\ probe.op = "get_monitor_for_window"
    /\ win[probe.hwnd].exists
    /\ MonitorFromWindow(win[probe.hwnd]) = 2
    /\ Len(_monitors) = 2
    /\ _monitors[2].is_primary
    /\ probe.result = _monitors[2]

-----------------------------------------------------------------------------
(* The layout store across restarts, on a desktop whose windows come and   *)
(* move                                                                    *)

\* layouts.json as an earlier run may have left it: absent, or holding a
\* layout "B" for the short title.
PriorFiles ==
    { None,
      _save([name \in {"B"} |-> [k \in {ShortTitle} |-> Rect(0, 0, 640, 480)]]) }

\* WindowManager() on a desktop with any first window and a second window
\* with a short or a long title: the layout store loads the file.
LayoutInit ==
    /\ config = DefaultConfig
    /\ displays = OsMonitors
    /\ config_file = ConfigFile(ConfigToJson(config))
    /\ _monitors = SortByX(OsMonitors)
    /\ \E first \in FirstWindows, kind \in {"plain", "app"} :
           win = [h \in Hwnds |-> IF h = 1 THEN first ELSE AppWindow(2, kind)]
    /\ layout_file \in PriorFiles
    /\ _layouts = _load(layout_file)
    /\ probe = NoProbe
    /\ animation_enabled = FALSE
    /\ _history = [h \in Hwnds |-> <<>>]
    /\ clock = 0
    /\ pc = "idle"
    /\ call = NoCall
    /\ ncalls = 0
    /\ evicted = [h \in Hwnds |-> {}]
    /\ scen = [h \in Hwnds |-> NoScen]

\* The program is started again: a new LayoutStore loads layouts.json.
Restart ==
    /\ pc = "idle"
    /\ _layouts' = _load(layout_file)
    /\ probe' = [op |-> "LayoutStore", loaded |-> _load(layout_file)]
    /\ UNCHANGED <<win, _monitors, animation_enabled, _history, clock, pc, call,
                   ncalls, evicted, scen, config, displays, config_file, layout_file>>

\* Between two calls the user drags a window elsewhere.
UserMoves(h) ==
    /\ pc = "idle"
    /\ win[h].exists
    /\ win[h].showCmd = "normal"
    /\ win' = MoveWindow(win, h, 300, 200, 640, 480)
    /\ UNCHANGED <<_monitors, animation_enabled, _history, _layouts, clock, pc, call,
                   ncalls, evicted, scen, config, displays, config_file, layout_file, probe>>

\* Between two calls an application opens a window in a free slot.
WindowOpens(h, kind) ==
    /\ pc = "idle"
    /\ ~win[h].exists
    /\ win' = [win EXCEPT ![h] = AppWindow(h, kind)]
    /\ UNCHANGED <<_monitors, animation_enabled, _history, _layouts, clock, pc, call,
                   ncalls, evicted, scen, config, displays, config_file, layout_file, probe>>

\* The caller saves a layout and restores it at once: save_layout(name),
\* then restore_layout(name), with nothing happening on the desktop in
\* between.
SaveThenRestore(name) ==
    LET c     == [NoCall EXCEPT !.op = "save_then_restore", !.arg = name]
        saved == save_current(_layouts, win, name)
        moves == restore_moves(saved, win, name)
    IN  /\ AtomicCall(c)
        /\ _layouts' = saved
        /\ layout_file' = _save(saved)
        /\ win' = ApplyMoves(win, moves)
        /\ Done([c EXCEPT !.moves = moves, !.result = "true"])

LayoutNext ==
    \/ \E name \in LayoutNames : SaveLayout(name)
    \/ \E name \in LayoutNames : SaveThenRestore(name)
    \/ \E name \in LayoutNames : RestoreLayout(name)
    \/ Return
    \/ Restart
    \/ \E h \in Hwnds : UserMoves(h)
    \/ \E h \in Hwnds, kind \in {"plain", "app"} : WindowOpens(h, kind)

LayoutSpec == LayoutInit /\ [][LayoutNext]_vars

\* Window h is one EnumWindows reports to enumerate_windows: a live, visible
\* top-level window.
Enumerable(w, h) == w[h].exists /\ w[h].visible /\ ~IsChildWindow(w, h)

\* Saved rectangle rect as restore hands it to MoveWindow for window h.
RestoreTarget(w, h, rect) ==
    Rect(rect.x - Border(w, h), rect.y, rect.width + 2 * Border(w, h),
         rect.height + Border(w, h))

\* The calls moves are one MoveWindow for each enumerable window of desktop
\* w whose truncated title is a key of layout, with the rectangle saved
\* under that key as target, and no other.
MovesMatch(moves, w, layout) ==
    /\ \A h \in Hwnds :
           (Enumerable(w, h) /\ TitleKey(GetWindowText(w, h)) \in DOMAIN layout)
           <=> (\E i \in 1..Len(moves) : moves[i].hwnd = h)
    /\ \A i, j \in 1..Len(moves) : moves[i].hwnd = moves[j].hwnd => i = j
    /\ \A i \in 1..Len(moves) :
           moves[i].rect =
               RestoreTarget(w, moves[i].hwnd,
                             layout[TitleKey(GetWindowText(w, moves[i].hwnd))])

C20_RestoreFrame ==
    [][ (pc = "idle" /\ pc' = "done" /\ call'.op = "restore_layout")
        => /\ _layouts' = _layouts
           /\ layout_file' = layout_file
           /\ call'.arg \notin DOMAIN _layouts =>
                  (call'.result = "false" /\ call'.moves = <<>> /\ win' = win)
           /\ call'.arg \in DOMAIN _layouts =>
                  /\ call'.result = "true"
                  /\ MovesMatch(call'.moves, win, _layouts[call'.arg])
                  /\ \A h \in Hwnds :
                         IF \E i \in 1..Len(call'.moves) : call'.moves[i].hwnd = h
                         THEN win'[h].rect = RestoreTarget(win, h,
                                  _layouts[call'.arg][TitleKey(GetWindowText(win, h))])
                         ELSE win'[h] = win[h] ]_vars

\* A restore has moved one window and left alone an enumerable window whose
\* truncated title is not a key of the layout.
C20_Witness ==
    /\ pc = "done"
    /\ call.op = "restore_layout"
    /\ call.result = "true"
    /\ Len(call.moves) = 1
    /\ \E h \in Hwnds :
           /\ h # call.moves[1].hwnd
           /\ Enumerable(win, h)
           /\ TitleKey(GetWindowText(win, h)) \notin DOMAIN _layouts[call.arg]

-----------------------------------------------------------------------------
(* The layout store when writing layouts.json can fail                     *)

\* LayoutStore.save_current(name) with the write ending as write says.  No
\* exception leaves _save, so the call returns as after a successful write.
SaveCurrent(name, write) ==
    /\ pc = "idle"
    /\ _layouts' = save_current(_layouts, win, name)
    /\ layout_file' = _write(layout_file, _save(save_current(_layouts, win, name)), write)
    /\ probe' = [op |-> "save_current", name |-> name, write |-> write,
                 file0 |-> layout_file, layouts0 |-> _layouts, result |-> "returned"]
    /\ UNCHANGED <<win, _monitors, animation_enabled, _history, clock, pc, call,
                   ncalls, evicted, scen, config, displays, config_file>>

\* LayoutStore.delete(name) with the write, when there is one, ending as
\* write says.
Delete(name, write) ==
    /\ pc = "idle"
    /\ IF name \in DOMAIN _layouts
       THEN /\ _layouts' = [n \in (DOMAIN _layouts) \ {name} |-> _layouts[n]]
            /\ layout_file' =
                   _write(layout_file,
                          _save([n \in (DOMAIN _layouts) \ {name} |-> _layouts[n]]),
                          write)
            /\ probe' = [op |-> "delete", name |-> name, write |-> write,
                         file0 |-> layout_file, layouts0 |-> _layouts,
                         result |-> "true"]
       ELSE /\ UNCHANGED <<_layouts, layout_file>>
            /\ probe' = [op |-> "delete", name |-> name, write |-> "none",
                         file0 |-> layout_file, layouts0 |-> _layouts,
                         result |-> "false"]
    /\ UNCHANGED <<win, _monitors, animation_enabled, _history, clock, pc, call,
                   ncalls, evicted, scen, config, displays, config_file>>

StoreNext ==
    \/ \E name \in LayoutNames, write \in WriteOutcomes : SaveCurrent(name, write)
    \/ \E name \in LayoutNames, write \in WriteOutcomes : Delete(name, write)
    \/ Restart
    \/ \E h \in Hwnds : UserMoves(h)
    \/ \E h \in Hwnds, kind \in {"plain", "app"} : WindowOpens(h, kind)

StoreSpec == LayoutInit /\ [][StoreNext]_vars

\* C21: when the write of save_current or delete fails or is interrupted,
\* layouts.json still holds what it held before the call, and the call
\* reports the failure to its caller.
C21_WritesAllOrNothing ==
    (probe.op \in {"save_current", "delete"} /\ probe.write \in {"open_fails", "interrupted"})
    => (layout_file = probe.file0 /\ probe.result \in {"raised", "false"})

\* The titles save_current stores: those of the visible top-level windows
\* that are not minimized and have a title, truncated.
SavedKeys(w) ==
    { TitleKey(GetWindowText(w, h)) :
        h \in { g \in Hwnds : Enumerable(w, g) /\ w[g].showCmd # "minimized"
                              /\ GetWindowText(w, g) # <<>> } }

\* layouts.json holds exactly the layouts: it is the document _save writes
\* for them, or there are none and there is no file.
FileHolds(file, layouts) ==
    file = _save(layouts) \/ (file = None /\ layouts = << >>)

\* C23: after save_current(name) the layout under name holds exactly the
\* truncated titles of the enumerated non-minimized titled windows, each
\* with the rectangle of a window of that title, the other layouts are
\* kept, and layouts.json equals the layouts in memory; the file equals
\* the memory after every delete too.
C23_SaveReplaces ==
    [][ /\ (probe' # probe /\ probe'.op = "save_current") =>
              /\ probe'.name \in DOMAIN _layouts'
              /\ DOMAIN _layouts'[probe'.name] = SavedKeys(win)
              /\ \A k \in SavedKeys(win) :
                     \E h \in Hwnds : /\ Enumerable(win, h)
                                      /\ TitleKey(GetWindowText(win, h)) = k
                                      /\ _layouts'[probe'.name][k] = win[h].rect
              /\ \A n \in (DOMAIN _layouts) \ {probe'.name} :
                     n \in DOMAIN _layouts' /\ _layouts'[n] = _layouts[n]
              /\ FileHolds(layout_file', _layouts')
        /\ (probe' # probe /\ probe'.op = "delete") =>
              FileHolds(layout_file', _layouts') ]_vars

-----------------------------------------------------------------------------
(* Start-up: the configuration is loaded, then layouts are calculated with *)
(* it                                                                      *)

\* wm_config.json as the program may find it: missing (in a directory that
\* may or may not be written), or present with the defaults, other values,
\* one field only, a member that is no field of Config, or text that is
\* not JSON, each readable or not and writable or not.
ConfigFiles ==
    { [exists |-> FALSE, readable |-> TRUE, writable |-> wr, data |-> << >>] :
        wr \in BOOLEAN }
    \cup { [exists |-> TRUE, readable |-> rd, writable |-> wr, data |-> data] :
             rd \in BOOLEAN, wr \in BOOLEAN,
             data \in { ConfigToJson(DefaultConfig),
                        ConfigToJson([gap |-> 0, margin |-> 0]),
                        << <<"gap", 11>> >>,
                        << <<"gap", 11>>, <<"colour", 1>> >>,
                        Malformed } }

\* Before Config.load has been called there is no configuration.
ConfInit ==
    /\ config = None
    /\ config_file \in ConfigFiles
    /\ displays = OsMonitors
    /\ _monitors = SortByX(OsMonitors)
    /\ win = [h \in Hwnds |-> AppWindow(h, "plain")]
    /\ probe = NoProbe
    /\ Quiet

\* Config.load()
LoadConfig ==
    /\ config' = IF load(config_file).result = "returned"
                 THEN load(config_file).config ELSE config
    /\ config_file' = load(config_file).file
    /\ probe' = [op |-> "Config.load", result |-> load(config_file).result,
                 file0 |-> config_file]
    /\ UNCHANGED <<win, _monitors, animation_enabled, _history, _layouts, clock, pc,
                   call, ncalls, evicted, scen, displays, layout_file>>

ConfNext ==
    \/ LoadConfig
    \/ config # None /\ \E work_area \in WorkAreas : Calculate(work_area)

ConfSpec == ConfInit /\ [][ConfNext]_vars

\* C22: Config.load never raises; when the file is missing, unreadable,
\* malformed or not a Config it gives the default configuration; and a
\* missing file that can be written holds the defaults afterwards.
C22_LoadNeverFails ==
    probe.op = "Config.load" =>
        /\ probe.result = "returned"
        /\ (\/ ~probe.file0.exists
            \/ ~probe.file0.readable
            \/ probe.file0.data = Malformed) => config = DefaultConfig
        /\ (~probe.file0.exists /\ probe.file0.writable) =>
               (config_file.exists /\ config_file.data = ConfigToJson(DefaultConfig))

-----------------------------------------------------------------------------
(* Tiling all windows: the calls on the desktop, and the grid arithmetic   *)
(* for more windows than the desktop of the model holds                    *)

\* Largest number of windows the grid arithmetic is tried with.
MaxWindows == 10

\* The loop of tile_all_visible("grid") over n windows: the grid and the
\* cell of every window.
GridPlacement(n) ==
    /\ pc = "idle"
    /\ probe' = [op |-> "grid_placement", n |-> n,
                 cells |-> [i \in 0..(n - 1) |-> grid_cell(i, n)]]
    /\ UNCHANGED <<win, _monitors, animation_enabled, _history, _layouts, clock, pc,
                   call, ncalls, evicted, scen, config, displays, config_file,
                   layout_file>>

TileAllNext ==
    \/ \E layout \in LayoutsTried : TileAllVisible(layout)
    \/ Return
    \/ \E n \in 1..MaxWindows : GridPlacement(n)
    \/ \E h \in Hwnds : UserMoves(h)

TileAllSpec == Init /\ [][TileAllNext]_vars

\* ceil(n / d) for d > 0
CeilDiv(n, d) == CHOOSE q \in 0..n : q * d >= n /\ (q = 0 \/ (q - 1) * d < n)

\* C24: tile_all_visible("grid") with n windows uses ceil(sqrt(n)) columns
\* and ceil(n / cols) rows and gives the i-th window the cell
\* (i div cols, i mod cols): every cell is inside the grid and no two
\* windows share one; and the call moves every window exactly once, to the
\* rectangle of its cell, whether or not animation is enabled.
C24_GridPlacement ==
    /\ probe.op = "grid_placement" =>
          LET n == probe.n
              cols == CeilSqrt(n)
              rows == CeilDiv(n, cols)
          IN  /\ \A i \in 0..(n - 1) :
                     /\ probe.cells[i].cols = cols
                     /\ probe.cells[i].rows = rows
                     /\ probe.cells[i].row = i \div cols
                     /\ probe.cells[i].col = i % cols
                     /\ probe.cells[i].row < rows
                     /\ probe.cells[i].col < cols
              /\ \A i, j \in 0..(n - 1) :
                     (probe.cells[i].row = probe.cells[j].row
                        /\ probe.cells[i].col = probe.cells[j].col) => i = j
    /\ (pc = "done" /\ call.op = "tile_all_visible" /\ call.arg = "grid"
          /\ call.result = "true") =>
          LET n == Len(call.moves)
              cols == CeilSqrt(n)
              rows == CeilDiv(n, cols)
          IN  /\ n >= 1
              /\ \A k, l \in 1..n : k < l => call.moves[k].hwnd < call.moves[l].hwnd
              /\ \A k \in 1..n :
                     LET h == call.moves[k].hwnd
                         target == calculate_grid((k - 1) \div cols, (k - 1) % cols,
                                                  rows, cols, call.monitor.work_area)
                     IN  /\ call.moves[k].rect =
                                _apply_position(target, get_extended_frame_offsets(win, h))
                         /\ win[h].rect = call.moves[k].rect

\* The arithmetic has been tried for seven windows (three columns, three
\* rows, the last row not full), and with animation enabled
\* tile_all_visible("grid") has placed two windows side by side, each with
\* one move.
C24_Witness ==
    /\ probe.op = "grid_placement"
    /\ probe.n = 7
    /\ probe.cells[6].row = 2
    /\ probe.cells[6].col = 0
    /\ pc = "done"
    /\ call.op = "tile_all_visible"
    /\ call.arg = "grid"
    /\ call.result = "true"
    /\ animation_enabled
    /\ Len(call.moves) = 2
    /\ win[call.moves[1].hwnd].rect # win[call.moves[2].hwnd].rect

-----------------------------------------------------------------------------
(* Focus cycling                                                           *)

\* next((i for i, w in enumerate(windows) if w.hwnd == current), -1), from 0
IndexOfHwnd(windows, current) ==
    IF \E i \in 1..Len(windows) : windows[i].hwnd = current
    THEN (CHOOSE i \in 1..Len(windows) :
              /\ windows[i].hwnd = current
              /\ \A j \in 1..(i - 1) : windows[j].hwnd # current) - 1
    ELSE -1

\* WindowManager.focus_next_window while current is the foreground window
\* (0: none of the windows of the model); focusOk tells whether
\* SetForegroundWindow succeeds.  No enumerated window is iconic, so
\* focus_window never restores one.
FocusNextWindow(current, focusOk) ==
    LET c == [NoCall EXCEPT !.op = "focus_next_window", !.req = current]
        filter_func(i) == ~i.is_minimized /\ i.class_name \notin excluded_classes
        windows == SelectSeq(enumerate_windows(win), filter_func)
    IN  /\ AtomicCall(c)
        /\ current = 0 \/ IsWindowVisible(win, current)
        /\ UNCHANGED <<win, _layouts, layout_file>>
        /\ IF Len(windows) < 2
           THEN Done([c EXCEPT !.result = "false"])
           ELSE LET current_idx == IndexOfHwnd(windows, current)
                    next_idx    == (current_idx + 1) % Len(windows)
                IN  Done([c EXCEPT !.hwnd = windows[next_idx + 1].hwnd,
                                   !.result = IF focusOk THEN "true" ELSE "false"])

FocusNext ==
    \/ \E current \in HwndArgs, focusOk \in BOOLEAN : FocusNextWindow(current, focusOk)
    \/ Return
    \/ \E h \in Hwnds, kind \in {"plain", "app"} : WindowOpens(h, kind)
    \/ \E h \in Hwnds : UserMoves(h)

FocusSpec == LayoutInit /\ [][FocusNext]_vars

\* The eligible windows that are not minimized, in enumeration order.
RECURSIVE FocusCandidates(_, _)
FocusCandidates(w, h) ==
    IF h \notin Hwnds THEN <<>>
    ELSE (IF Eligible(w, h) /\ w[h].showCmd # "minimized" THEN <<h>> ELSE <<>>)
         \o FocusCandidates(w, h + 1)

\* C25: focus_next_window fails when fewer than two eligible windows
\* exist; when it succeeds, the window it has focused is eligible, and is
\* the one after the foreground window in the enumeration of the eligible
\* windows, the first one after the last.
C25_FocusCycles ==
    (pc = "done" /\ call.op = "focus_next_window") =>
        LET es == FocusCandidates(win, 1)
        IN  /\ Len(es) < 2 => call.result = "false"
            /\ call.result = "true" =>
                   /\ \E i \in 1..Len(es) : es[i] = call.hwnd
                   /\ \A i \in 1..Len(es) :
                          es[i] = call.req => call.hwnd = es[(i % Len(es)) + 1]

-----------------------------------------------------------------------------
(* Animation                                                               *)

\* v lies between a and b, whichever is the larger.
Between(v, a, b) == (a <= v /\ v <= b) \/ (b <= v /\ v <= a)

\* C26: a tile, grid or move_to_monitor that has run its animation on a
\* window has applied one position, the target, when animation is
\* disabled, and animation_steps positions when it is enabled; every
\* position applied is a rectangle between start and target with the frame
\* offsets added, the last one is the target with the frame offsets added,
\* and it is where the window is.
C26_AnimationCompletes ==
    (pc = "done" /\ call.op \in TilingOps /\ call.result = "true") =>
        LET n == Len(call.moves)
            off == call.offsets
        IN  /\ n = (IF animation_enabled THEN animation_steps ELSE 1)
            /\ \A i \in 1..n :
                   LET r == call.moves[i].rect
                   IN  /\ call.moves[i].hwnd = call.hwnd
                       /\ Between(r.x + off[1], call.start.x, call.target.x)
                       /\ Between(r.y + off[2], call.start.y, call.target.y)
                       /\ Between(r.width - off[1] - off[3],
                                  call.start.width, call.target.width)
                       /\ Between(r.height - off[4],
                                  call.start.height, call.target.height)
            /\ call.moves[n].rect = _apply_position(call.target, off)
            /\ win[call.hwnd].exists => win[call.hwnd].rect = call.moves[n].rect

\* An animated tile of a window with a resize border has applied
\* animation_steps positions, the first of them short of the target.
C26_Witness ==
    /\ pc = "done"
    /\ call.op = "tile"
    /\ call.result = "true"
    /\ animation_enabled
    /\ call.offsets[1] = 7
    /\ Len(call.moves) = animation_steps
    /\ call.moves[1].rect # call.moves[animation_steps].rect
    /\ call.moves[animation_steps].rect = _apply_position(call.target, call.offsets)

-----------------------------------------------------------------------------
(* Moving between monitors                                                 *)

Abs(v) == IF v < 0 THEN -v ELSE v

\* C27: after move_to_monitor the target rectangle has, within one pixel,
\* the same fractional offset and size in the new work area as the window
\* had in the old one; when the two work areas have the same size the
\* window keeps its size and its offset from the work-area origin; and
\* when the target monitor is the current one the target is the window's
\* own rectangle.
C27_RelativeGeometry ==
    (pc = "done" /\ call.op = "move_to_monitor" /\ call.result = "true"
        /\ win[call.hwnd].exists) =>
        LET c == call.monitor.work_area
            t == call.tmonitor.work_area
            s == call.start
            g == call.target
            r == win[call.hwnd].rect
        IN  /\ Abs((g.x - t.x) * c.width - (s.x - c.x) * t.width) < c.width
            /\ Abs((g.y - t.y) * c.height - (s.y - c.y) * t.height) < c.height
            /\ Abs(g.width * c.width - s.width * t.width) < c.width
            /\ Abs(g.height * c.height - s.height * t.height) < c.height
            /\ (c.width = t.width /\ c.height = t.height) =>
                   /\ r.width = s.width
                   /\ r.height = s.height
                   /\ r.x - t.x = s.x - c.x
                   /\ r.y - t.y = s.y - c.y
            /\ call.tmonitor = call.monitor => g = s

-----------------------------------------------------------------------------
(* Saving and restoring in place                                           *)

\* C28: save_current(name) followed at once by restore(name) leaves the
\* rectangle of every window as it was before the save.
C28_PositionNeutral ==
    [][ (pc = "idle" /\ pc' = "done" /\ call'.op = "save_then_restore")
        => \A h \in Hwnds :
               /\ win'[h].exists = win[h].exists
               /\ win[h].exists => win'[h].rect = win[h].rect ]_vars

-----------------------------------------------------------------------------
(* Two-thirds modes, and targets inside the work area                      *)

\* C29: LEFT_TWO_THIRDS spans from the left edge of LEFT_THIRD to the right
\* edge of CENTER_THIRD, its width being two third widths and a gap, and
\* RIGHT_TWO_THIRDS spans from the left edge of CENTER_THIRD to the right
\* edge of RIGHT_THIRD.
C29_TwoThirdsAlign ==
    probe.op = "calculate" =>
        LET r == probe.result
        IN  /\ r["LEFT_TWO_THIRDS"].x = r["LEFT_THIRD"].x
            /\ r["LEFT_TWO_THIRDS"].width = 2 * r["LEFT_THIRD"].width + config.gap
            /\ r["LEFT_TWO_THIRDS"].x + r["LEFT_TWO_THIRDS"].width
                   = r["CENTER_THIRD"].x + r["CENTER_THIRD"].width
            /\ r["RIGHT_TWO_THIRDS"].x = r["CENTER_THIRD"].x
            /\ r["RIGHT_TWO_THIRDS"].x + r["RIGHT_TWO_THIRDS"].width
                   = r["RIGHT_THIRD"].x + r["RIGHT_THIRD"].width

\* Largest number of rows and of columns of the grids tried on small work
\* areas.
MaxCells == 4

\* Work areas around the smallest the configurations allow: 2 * margin +
\* 2 * gap is 50 by default and 52 at most.
SmallAreas == { Rect(0, 0, w, h) : w \in {50, 52, 64, 400}, h \in {50, 52, 64, 400} }

SmallNext ==
    \/ \E work_area \in SmallAreas : Calculate(work_area)
    \/ \E rows \in 1..MaxCells, cols \in 1..MaxCells, work_area \in SmallAreas :
           CalculateGrid(rows, cols, work_area)

\* The layout calculator called directly on small work areas.
SmallSpec == CalcInit /\ [][SmallNext]_vars

\* C30: on a work area at least 2 * margin + 2 * gap wide and high, the
\* rectangle of every tile mode and of every cell of every grid has
\* non-negative width and height and lies inside the work area.
C30_TargetsInside ==
    (/\ probe.op \in {"calculate", "calculate_grid"}
     /\ config.gap >= 0 /\ config.margin >= 0
     /\ probe.work_area.width >= 2 * config.margin + 2 * config.gap
     /\ probe.work_area.height >= 2 * config.margin + 2 * config.gap)
    => \A k \in DOMAIN probe.result :
           LET r == probe.result[k]
               area == probe.work_area
           IN  /\ r.width >= 0
               /\ r.height >= 0
               /\ area.x <= r.x
               /\ r.x + r.width <= area.x + area.width
               /\ area.y <= r.y
               /\ r.y + r.height <= area.y + area.height

====
